---- MODULE Spec2Model ----
(***************************************************************************)
(* Model of JBScrape.py (class JBScraper): the iOS version utilities, the  *)
(* per-item handlers of search_ebay / search_swappa with their seen_ids    *)
(* sets, and the result processing (process_results).                      *)
(*                                                                         *)
(* Python str values are modelled as sequences of one-character strings,   *)
(* so that regular expressions, substring tests, replace/strip/split and   *)
(* lower() are computed character by character.  None and '' are both the  *)
(* empty sequence: every use in the source goes through `not x`, which     *)
(* treats them alike.                                                      *)
(***************************************************************************)
EXTENDS Integers, Sequences, FiniteSets, TLC

VARIABLES
    source,          \* which search_* method is running ("ebay"/"swappa")
    major_versions,  \* the major_versions argument
    seen_ids,        \* local seen_ids of the running search_* method
    listings,        \* local listings of search_* / the list given to process_results
    log,             \* history: one entry per raw record the item loop looked at
    text,            \* a free text under construction (title / seller text / price)
    call             \* the last utility call: [fn, ret, ...]

vars == <<source, major_versions, seen_ids, listings, log, text, call>>

----------------------------------------------------------------------------
(* Bounds of the model *)

MaxItems == 3
MaxTokens == 3
MaxVerTokens == 3
MaxDevTokens == 2
MaxListings == 3
MaxRuns == 3
MaxInfoTokens == 3
MaxMajors == 3

----------------------------------------------------------------------------
(* Characters and Python str primitives *)

Digits == {"0", "1", "2", "3", "4", "5", "6", "7", "8", "9"}

LowerLetters == {"a", "b", "c", "d", "e", "f", "g", "h", "i", "j", "k", "l",
                 "m", "n", "o", "p", "q", "r", "s", "t", "u", "v", "w", "x",
                 "y", "z"}

UpperToLower == [A |-> "a", B |-> "b", C |-> "c", D |-> "d", E |-> "e",
                 F |-> "f", G |-> "g", H |-> "h", I |-> "i", J |-> "j",
                 K |-> "k", L |-> "l", M |-> "m", N |-> "n", O |-> "o",
                 P |-> "p", Q |-> "q", R |-> "r", S |-> "s", T |-> "t",
                 U |-> "u", V |-> "v", W |-> "w", X |-> "x", Y |-> "y",
                 Z |-> "z"]

UpperLetters == DOMAIN UpperToLower

\* \w of the re module (ASCII part)
WordChars == Digits \cup LowerLetters \cup UpperLetters \cup {"_"}

\* \s of the re module / str.strip() / str.split() (ASCII part)
SpaceChars == {" ", "\t", "\n"}

LowerChar(c) == IF c \in UpperLetters THEN UpperToLower[c] ELSE c

\* str.lower()
Lower(s) == [i \in 1..Len(s) |-> LowerChar(s[i])]

\* s[a:b) with 1-based positions, clipped like a Python slice
Slice(s, a, b) == IF b > Len(s) + 1 THEN SubSeq(s, a, Len(s)) ELSE SubSeq(s, a, b - 1)

\* does sub occur in s at position p
OccursAt(s, sub, p) ==
    /\ p >= 1
    /\ p + Len(sub) - 1 <= Len(s)
    /\ SubSeq(s, p, p + Len(sub) - 1) = sub

\* `sub in s`
Contains(s, sub) == \E p \in 1..(Len(s) + 1) : OccursAt(s, sub, p)

\* s.endswith(sub)
EndsWith(s, sub) == OccursAt(s, sub, Len(s) - Len(sub) + 1)

RECURSIVE Replace(_, _, _)
\* s.replace(old, new), old non-empty: leftmost non-overlapping occurrences
Replace(s, old, new) ==
    IF s = <<>> THEN <<>>
    ELSE IF OccursAt(s, old, 1)
         THEN new \o Replace(SubSeq(s, Len(old) + 1, Len(s)), old, new)
         ELSE <<s[1]>> \o Replace(Tail(s), old, new)

RECURSIVE LStrip(_)
LStrip(s) == IF s # <<>> /\ s[1] \in SpaceChars THEN LStrip(Tail(s)) ELSE s

RECURSIVE RStrip(_)
RStrip(s) ==
    IF s # <<>> /\ s[Len(s)] \in SpaceChars THEN RStrip(SubSeq(s, 1, Len(s) - 1)) ELSE s

\* s.strip()
Strip(s) == RStrip(LStrip(s))

RECURSIVE UpTo(_, _)
\* the prefix of s before the first character of stop (all of s when none)
UpTo(s, stop) ==
    IF s = <<>> \/ s[1] \in stop THEN <<>> ELSE <<s[1]>> \o UpTo(Tail(s), stop)

\* s.split(sep)[0] for a one-character sep
SplitFirst(s, sep) == UpTo(s, {sep})

RECURSIVE AfterLast(_, _)
\* s.split(sep)[-1] for a one-character sep
AfterLast(s, sep) ==
    IF s = <<>> THEN <<>>
    ELSE IF s[Len(s)] = sep THEN <<>>
         ELSE AfterLast(SubSeq(s, 1, Len(s) - 1), sep) \o <<s[Len(s)]>>

DigitChar == <<"0", "1", "2", "3", "4", "5", "6", "7", "8", "9">>

DigitVal == [c \in Digits |-> CHOOSE d \in 0..9 : DigitChar[d + 1] = c]

RECURSIVE IntToStr(_)
\* str(n) for n >= 0
IntToStr(n) == IF n < 10 THEN <<DigitChar[n + 1]>>
               ELSE IntToStr(n \div 10) \o <<DigitChar[(n % 10) + 1]>>

RECURSIVE StrToInt(_)
\* int(s) for a string of decimal digits
StrToInt(s) == IF s = <<>> THEN 0
               ELSE 10 * StrToInt(SubSeq(s, 1, Len(s) - 1)) + DigitVal[s[Len(s)]]

----------------------------------------------------------------------------
(* Regular-expression machinery: a pattern element maps a position to the  *)
(* sequence of positions it can end at, in the order the backtracking      *)
(* matcher of `re` tries them (greedy first).                              *)

RECURSIVE RunLen(_, _, _)
\* number of consecutive characters of class cls starting at position p
RunLen(s, p, cls) ==
    IF p <= Len(s) /\ s[p] \in cls THEN 1 + RunLen(s, p + 1, cls) ELSE 0

\* cls* at p
ReStar(s, p, cls) == LET w == RunLen(s, p, cls) IN [k \in 1..(w + 1) |-> p + w + 1 - k]

\* cls+ at p
RePlus(s, p, cls) == LET w == RunLen(s, p, cls) IN [k \in 1..w |-> p + w + 1 - k]

\* a literal at p
ReLit(s, p, lit) == IF OccursAt(s, lit, p) THEN <<p + Len(lit)>> ELSE <<>>

\* (?:\.\d+)? at p
ReOptDotDigits(s, p) ==
    IF p <= Len(s) /\ s[p] = "." THEN RePlus(s, p + 1, Digits) \o <<p>> ELSE <<p>>

IsWordAt(s, p) == p >= 1 /\ p <= Len(s) /\ s[p] \in WordChars

\* \b just before position p
WordBoundary(s, p) == IsWordAt(s, p - 1) # IsWordAt(s, p)

RECURSIVE ThenOptDotDigits(_, _)
\* every candidate <<start, end>> of cands continued by (?:\.\d+)?
ThenOptDotDigits(s, cands) ==
    IF cands = <<>> THEN <<>>
    ELSE LET c == Head(cands)
             ends == ReOptDotDigits(s, c[2])
         IN [k \in 1..Len(ends) |-> <<c[1], ends[k]>>] \o ThenOptDotDigits(s, Tail(cands))

RECURSIVE FirstBounded(_, _)
\* the first candidate that ends at a \b, or <<>>
FirstBounded(s, cands) ==
    IF cands = <<>> THEN <<>>
    ELSE IF WordBoundary(s, Head(cands)[2]) THEN Head(cands)
         ELSE FirstBounded(s, Tail(cands))

RECURSIVE ThenDigits(_, _)
\* every start position of starts continued by (\d+), as <<group start, end>>
ThenDigits(s, starts) ==
    IF starts = <<>> THEN <<>>
    ELSE LET p == Head(starts)
             ends == RePlus(s, p, Digits)
         IN [k \in 1..Len(ends) |-> <<p, ends[k]>>] \o ThenDigits(s, Tail(starts))

RECURSIVE ThenLit(_, _, _)
\* every start position of starts continued by a literal, as <<start, end>>
ThenLit(s, starts, lit) ==
    IF starts = <<>> THEN <<>>
    ELSE LET p == Head(starts)
             ends == ReLit(s, p, lit)
         IN [k \in 1..Len(ends) |-> <<p, ends[k]>>] \o ThenLit(s, Tail(starts), lit)

----------------------------------------------------------------------------
(* iOS Version Utilities *)

Str_ios == <<"i", "o", "s">>
Str_iOS_ == <<"i", "O", "S", " ">>

JAILBREAKABLE ==
    (16 :> << <<"1", "6">>,
              <<"1", "6", ".", "0">>,
              <<"1", "6", ".", "0", ".", "1">>,
              <<"1", "6", ".", "0", ".", "2">>,
              <<"1", "6", ".", "0", ".", "3">>,
              <<"1", "6", ".", "1">>,
              <<"1", "6", ".", "1", ".", "1">>,
              <<"1", "6", ".", "1", ".", "2">>,
              <<"1", "6", ".", "2">>,
              <<"1", "6", ".", "2", ".", "1">>,
              <<"1", "6", ".", "3">>,
              <<"1", "6", ".", "3", ".", "1">>,
              <<"1", "6", ".", "4">>,
              <<"1", "6", ".", "4", ".", "1">>,
              <<"1", "6", ".", "5">>,
              <<"1", "6", ".", "5", ".", "1">>,
              <<"1", "6", ".", "6">>,
              <<"1", "6", ".", "6", ".", "1">> >>)
    @@
    (17 :> << <<"1", "7">>,
              <<"1", "7", ".", "0">> >>)

\* the match of r'\bios\s*(\d+(?:\.\d+)?(?:\.\d+)?)\b' starting at position i:
\* <<group start, end>> or <<>>
VersionMatchAt(s, i) ==
    IF WordBoundary(s, i) /\ OccursAt(s, Str_ios, i)
    THEN FirstBounded(s,
            ThenOptDotDigits(s,
                ThenOptDotDigits(s,
                    ThenDigits(s, ReStar(s, i + 3, SpaceChars)))))
    ELSE <<>>

RECURSIVE VersionSearch(_, _)
\* re.search: the match at the leftmost position >= i that has one
VersionSearch(s, i) ==
    IF i > Len(s) THEN <<>>
    ELSE IF VersionMatchAt(s, i) # <<>> THEN VersionMatchAt(s, i)
         ELSE VersionSearch(s, i + 1)

extract_ios_version(txt) ==
    IF txt = <<>> THEN <<>>
    ELSE LET text_lower == Lower(txt)
             match == VersionSearch(text_lower, 1)
         IN IF match # <<>>
            THEN Str_iOS_ \o SubSeq(text_lower, match[1], match[2] - 1)
            ELSE <<>>

iphone(model) == <<"i", "p", "h", "o", "n", "e", " ">> \o model

ios16_incompatible ==
    << iphone(<<"4">>), iphone(<<"5">>), iphone(<<"6">>), iphone(<<"7">>),
       iphone(<<"s", "e", " ">>) >>

\* mutation: an old-device marker alone decides, the guards are missing
OldDeviceReturnsFalse_unguarded(title_lower) ==
    \E k \in 1..Len(ios16_incompatible) : Contains(title_lower, ios16_incompatible[k])

\* the body of the loop over ios16_incompatible: TRUE when it returns False
OldDeviceReturnsFalse(title_lower) ==
    \/ /\ Contains(title_lower, iphone(<<"4">>))
       /\ ~Contains(title_lower, iphone(<<"1", "4">>))
    \/ /\ Contains(title_lower, iphone(<<"5">>))
       /\ ~Contains(title_lower, iphone(<<"1", "5">>))
    \/ /\ Contains(title_lower, iphone(<<"6">>))
       /\ ~Contains(title_lower, iphone(<<"1", "6">>))
       /\ ~Contains(title_lower, <<"6", "s">>)
    \/ /\ Contains(title_lower, iphone(<<"7">>))
       /\ ~Contains(title_lower, <<"7", " ", "p", "l", "u", "s">>)
    \/ /\ Contains(title_lower, iphone(<<"s", "e", " ">>))
       /\ ~Contains(title_lower, <<"2", "n", "d">>)
       /\ ~Contains(title_lower, <<"3", "r", "d">>)
       /\ ~Contains(title_lower, <<"2", "0", "2", "0">>)
       /\ ~Contains(title_lower, <<"2", "0", "2", "2">>)

\* mutation: the iPhone 8 test is missing
Ios17ReturnsFalse_without8(title_lower) ==
    /\ \/ Contains(title_lower, iphone(<<"x", " ">>))
       \/ EndsWith(title_lower, iphone(<<"x">>))
    /\ ~Contains(title_lower, <<"x", "s">>)
    /\ ~Contains(title_lower, <<"x", "r">>)

\* the `if ios_major >= 17` block: TRUE when it returns False
Ios17ReturnsFalse(title_lower) ==
    \/ /\ Contains(title_lower, iphone(<<"8">>))
       /\ ~Contains(title_lower, iphone(<<"1", "8">>))
    \/ /\ \/ Contains(title_lower, iphone(<<"x", " ">>))
          \/ EndsWith(title_lower, iphone(<<"x">>))
       /\ ~Contains(title_lower, <<"x", "s">>)
       /\ ~Contains(title_lower, <<"x", "r">>)

\* ios_major is the string the callers pass (digits of the extracted major)
is_device_compatible(title, ios_major) ==
    LET title_lower == Lower(title)
        major == StrToInt(ios_major)
    IN IF /\ major >= 16
          /\ \E k \in 1..Len(ios16_incompatible) :
                /\ Contains(title_lower, ios16_incompatible[k])
                /\ OldDeviceReturnsFalse(title_lower)
       THEN FALSE
       ELSE IF major >= 17 /\ Ios17ReturnsFalse(title_lower)
            THEN FALSE
            ELSE TRUE

\* mutation: the pattern has no closing \b
MajorPatternFound_unbounded(s, major) ==
    \E i \in 1..Len(s) :
        /\ WordBoundary(s, i)
        /\ OccursAt(s, Str_ios, i)
        /\ ThenLit(s, ReStar(s, i + 3, SpaceChars), IntToStr(major)) # <<>>

\* re.search(rf'\bios\s*{major}(?:\.\d+)?(?:\.\d+)?\b', s) is not None
MajorPatternFound(s, major) ==
    \E i \in 1..Len(s) :
        /\ WordBoundary(s, i)
        /\ OccursAt(s, Str_ios, i)
        /\ FirstBounded(s,
              ThenOptDotDigits(s,
                  ThenOptDotDigits(s,
                      ThenLit(s, ReStar(s, i + 3, SpaceChars), IntToStr(major))))) # <<>>

\* mutation: the "?" test is missing
matches_target_versions_ignoring_mark(txt, target_majors) ==
    IF txt = <<>> THEN FALSE
    ELSE \E k \in 1..Len(target_majors) : MajorPatternFound(Lower(txt), target_majors[k])

matches_target_versions(txt, target_majors) ==
    IF txt = <<>> \/ Contains(txt, <<"?">>) THEN FALSE
    ELSE \E k \in 1..Len(target_majors) : MajorPatternFound(Lower(txt), target_majors[k])

\* mutation: every version of major 16 or 17 counts as jailbreakable
is_jailbreakable_version_by_major(ios_version) ==
    IF ios_version = <<>> THEN FALSE
    ELSE SplitFirst(Strip(Replace(ios_version, Str_iOS_, <<>>)), ".")
            \in { <<"1", "6">>, <<"1", "7">> }

is_jailbreakable_version(ios_version) ==
    IF ios_version = <<>> THEN FALSE
    ELSE LET ver == Strip(Replace(ios_version, Str_iOS_, <<>>))
         IN \/ \E major \in DOMAIN JAILBREAKABLE :
                  \E k \in 1..Len(JAILBREAKABLE[major]) : JAILBREAKABLE[major][k] = ver
            \/ ver \in { <<"1", "6">>, <<"1", "7">> }

\* ios_ver.replace('iOS ', '').split('.')[0]
MajorOf(ios_ver) == SplitFirst(Replace(ios_ver, Str_iOS_, <<>>), ".")

\* f'iPhone "iOS {ver}"'
QuotedQuery(ver) == <<"i", "P", "h", "o", "n", "e", " ", "\"", "i", "O", "S", " ">> \o ver \o <<"\"">>

\* f'iPhone iOS {ver}'
UnquotedQuery(ver) == <<"i", "P", "h", "o", "n", "e", " ", "i", "O", "S", " ">> \o ver

\* mutation: the bare major is not searched without quotes
VersionQueries_quoted_only(ver, major) == <<QuotedQuery(ver)>>

\* what one turn of `for ver in self.JAILBREAKABLE[major]` appends
VersionQueries(ver, major) ==
    IF ver = IntToStr(major)
    THEN <<QuotedQuery(ver), UnquotedQuery(ver)>>
    ELSE <<QuotedQuery(ver)>>

RECURSIVE WhitelistQueries(_, _, _)
\* the loop over the whitelisted versions of major, from version k on
WhitelistQueries(versions, major, k) ==
    IF k > Len(versions) THEN <<>>
    ELSE VersionQueries(versions[k], major) \o WhitelistQueries(versions, major, k + 1)

\* what one turn of `for major in major_versions` appends
MajorQueries(major) ==
    IF major \in DOMAIN JAILBREAKABLE
    THEN WhitelistQueries(JAILBREAKABLE[major], major, 1)
    ELSE <<QuotedQuery(IntToStr(major)), UnquotedQuery(IntToStr(major))>>

RECURSIVE generate_version_queries(_)
generate_version_queries(majors) ==
    IF majors = <<>> THEN <<>>
    ELSE MajorQueries(Head(majors)) \o generate_version_queries(Tail(majors))

----------------------------------------------------------------------------
(* Python dicts: functions from key strings to values *)

EmptyDict == [k \in {} |-> <<>>]

Put(d, k, v) == (k :> v) @@ d

\* d.get(k, default)
Get(d, k, default) == IF k \in DOMAIN d THEN d[k] ELSE default

----------------------------------------------------------------------------
(* eBay scraper.  A result element is a record                             *)
(*   listingid : its data-listingid attribute (<<>> when missing)          *)
(*   hrefs     : the href of the element each URL selector found, in order *)
(*   titles    : the text of the element each title selector found         *)
(*   prices    : the text of the element each price selector found         *)

Str_itm == <<"/", "i", "t", "m", "/">>

RECURSIVE ItmSearch(_, _)
\* group 1 of re.search(r'/itm/(\d+)', href) looking from position p, or <<>>
ItmSearch(href, p) ==
    IF p > Len(href) THEN <<>>
    ELSE IF OccursAt(href, Str_itm, p) /\ RunLen(href, p + 5, Digits) > 0
         THEN SubSeq(href, p + 5, p + 4 + RunLen(href, p + 5, Digits))
         ELSE ItmSearch(href, p + 1)

RECURSIVE ParseUrl(_, _)
\* the loop over the URL selectors
ParseUrl(listing, hrefs) ==
    IF hrefs = <<>> THEN listing
    ELSE LET href == Head(hrefs) IN
         IF href # <<>> /\ Contains(href, Str_itm)
         THEN LET withUrl == Put(listing, "url", href)
                  match == ItmSearch(href, 1)
              IN IF Get(listing, "item_id", <<>>) = <<>> /\ match # <<>>
                 THEN Put(withUrl, "item_id", match)
                 ELSE withUrl
         ELSE ParseUrl(listing, Tail(hrefs))

RECURSIVE ParseTitle(_, _)
\* the loop over the title selectors
ParseTitle(listing, titles) ==
    IF titles = <<>> THEN listing
    ELSE LET txt == Strip(Head(titles)) IN
         IF txt # <<>> /\ Len(txt) > 5
         THEN Put(listing, "title", txt)
         ELSE ParseTitle(listing, Tail(titles))

RECURSIVE ParsePrice(_, _)
\* the loop over the price selectors
ParsePrice(listing, prices) ==
    IF prices = <<>> THEN listing
    ELSE LET txt == Strip(Head(prices)) IN
         IF txt # <<>> /\ Contains(txt, <<"$">>)
         THEN Put(listing, "price", SplitFirst(txt, "\n"))
         ELSE ParsePrice(listing, Tail(prices))

\* the listing dict (the scraped_at timestamp is left out)
parse_ebay_item(item) ==
    LET l0 == IF item.listingid # <<>>
              THEN Put(EmptyDict, "item_id", item.listingid)
              ELSE EmptyDict
    IN ParsePrice(ParseTitle(ParseUrl(l0, item.hrefs), item.titles), item.prices)

\* mutation: the whitelist is not consulted
ebay_validate_without_whitelist(title, majors) ==
    LET ios_ver == extract_ios_version(title) IN
    IF ios_ver = <<>> THEN <<>>
    ELSE IF ~matches_target_versions(title, majors) THEN <<>>
    ELSE IF ~is_device_compatible(title, MajorOf(ios_ver)) THEN <<>>
    ELSE ios_ver

\* search_ebay lines 288-303: the extracted version when every check passes,
\* <<>> when one of them says `continue`
ebay_validate(title, majors) ==
    LET ios_ver == extract_ios_version(title) IN
    IF ios_ver = <<>> THEN <<>>
    ELSE IF ~matches_target_versions(title, majors) THEN <<>>
    ELSE IF ~is_device_compatible(title, MajorOf(ios_ver)) THEN <<>>
    ELSE IF ~is_jailbreakable_version(ios_ver) THEN <<>>
    ELSE ios_ver

\* mutation: no record is taken for a duplicate
ebay_is_duplicate_never(item_id, seen) == FALSE

\* `if item_id in seen_ids: continue`
ebay_is_duplicate(item_id, seen) == item_id \in seen

\* mutation: the accepted identifier is not remembered
ebay_seen_after_accept_forgets(item_id, seen) == seen

\* what search_ebay remembers once a listing passed: seen_ids.add(item_id)
ebay_seen_after_accept(item_id, seen) == seen \cup {item_id}

\* the body of `for item in items` of search_ebay
ebay_item(item, majors, seen, found) ==
    LET listing == parse_ebay_item(item)
        item_id == Get(listing, "item_id", <<>>)
        title == Get(listing, "title", <<>>)
        ios_ver == ebay_validate(title, majors)
        entry == [id |-> item_id, text |-> title, classified |-> FALSE, accepted |-> FALSE]
    IN IF title = <<>>
       THEN [seen |-> seen, found |-> found, entry |-> entry]
       ELSE IF ebay_is_duplicate(item_id, seen)
       THEN [seen |-> seen, found |-> found, entry |-> entry]
       ELSE IF ios_ver = <<>>
       THEN [seen |-> seen, found |-> found,
             entry |-> [entry EXCEPT !.classified = TRUE]]
       ELSE [seen |-> ebay_seen_after_accept(item_id, seen),
             found |-> Append(found,
                         Put(Put(listing, "ios_version", ios_ver), "source", "ebay")),
             entry |-> [entry EXCEPT !.classified = TRUE, !.accepted = TRUE]]

----------------------------------------------------------------------------
(* Swappa scraper.  A link of a model page is a record                     *)
(*   href  : its href attribute (<<>> when missing)                        *)
(*   parts : the seller texts its listing page yields, in order (JSON-LD   *)
(*           descriptions, damage description, h1)                         *)
(*   price : content or text of the price element, <<"-">> when not found  *)

(* The parameter of search_swappa (20 by default); the exploration runs it  *)
(* with a small value so that the cut-off of the link loop is reached.      *)
max_listings_per_model == 2

RECURSIVE SellerText(_)
\* seller_text += part + " " for every part found
SellerText(parts) ==
    IF parts = <<>> THEN <<>> ELSE Head(parts) \o <<" ">> \o SellerText(Tail(parts))

NoPrice == <<"-">>

\* _check_swappa_listing lines 518-533: the extracted version when every
\* check passes, <<>> when one of them says `return None`
swappa_validate(seller_text, majors) ==
    LET ios_ver == extract_ios_version(seller_text) IN
    IF ios_ver = <<>> THEN <<>>
    ELSE IF ~matches_target_versions(seller_text, majors) THEN <<>>
    ELSE IF ~is_jailbreakable_version(ios_ver) THEN <<>>
    ELSE IF ~is_device_compatible(seller_text, MajorOf(ios_ver)) THEN <<>>
    ELSE ios_ver


\* the dict _check_swappa_listing returns, EmptyDict for None
check_swappa_listing(listing_id, link, majors) ==
    LET seller_text == SellerText(link.parts)
        price == IF link.price = NoPrice THEN <<>> ELSE <<"$">> \o link.price
        ios_ver == swappa_validate(seller_text, majors)
    IN IF ios_ver = <<>> THEN EmptyDict
       ELSE [item_id |-> listing_id,
             url |-> link.href,
             title |-> Strip(Slice(seller_text, 1, 101)),
             ios_version |-> ios_ver,
             price |-> price,
             source |-> "swappa"]

\* `if listing_id not in seen_ids` of the link loop
swappa_is_new(listing_id, seen) == listing_id \notin seen

RECURSIVE swappa_collect(_, _, _, _)
\* the loop over listing_links: the new seen_ids, listing_urls, and for every
\* link with an href it looked at <<listing_id, link, whether it was new>>
swappa_collect(links, seen, urls, looked) ==
    IF links = <<>> THEN [seen |-> seen, urls |-> urls, looked |-> looked]
    ELSE LET link == Head(links)
             listing_id == AfterLast(link.href, "/")
         IN IF link.href = <<>>
            THEN swappa_collect(Tail(links), seen, urls, looked)
            ELSE IF swappa_is_new(listing_id, seen)
            THEN IF Len(urls) + 1 >= max_listings_per_model
                 THEN [seen |-> seen \cup {listing_id},
                       urls |-> Append(urls, <<listing_id, link>>),
                       looked |-> Append(looked, <<listing_id, link, TRUE>>)]
                 ELSE swappa_collect(Tail(links), seen \cup {listing_id},
                                     Append(urls, <<listing_id, link>>),
                                     Append(looked, <<listing_id, link, TRUE>>))
            ELSE swappa_collect(Tail(links), seen, urls,
                                Append(looked, <<listing_id, link, FALSE>>))

RECURSIVE swappa_visit(_, _, _)
\* the loop over listing_urls: listings.append(result) for every result
swappa_visit(urls, majors, found) ==
    IF urls = <<>> THEN found
    ELSE LET result == check_swappa_listing(Head(urls)[1], Head(urls)[2], majors)
         IN swappa_visit(Tail(urls), majors,
                         IF result # EmptyDict THEN Append(found, result) ELSE found)

\* the history entry of a link: every link put on listing_urls is visited
SwappaEntry(u, majors) ==
    [id |-> u[1], text |-> SellerText(u[2].parts), classified |-> u[3],
     accepted |-> u[3] /\ check_swappa_listing(u[1], u[2], majors) # EmptyDict]

\* the body of `for model in models` of search_swappa; the history lists the
\* links in page order
swappa_model(links, majors, seen, found) ==
    LET c == swappa_collect(links, seen, <<>>, <<>>)
    IN [seen |-> c.seen,
        found |-> swappa_visit(c.urls, majors, found),
        entries |-> [k \in 1..Len(c.looked) |-> SwappaEntry(c.looked[k], majors)]]

----------------------------------------------------------------------------
(* A run of one search_* method over the records the browser supplies *)

TitleAccepted ==
    <<"i", "P", "h", "o", "n", "e", " ", "1", "2", " ", "i", "O", "S", " ", "1", "6", ".", "2">>

TitleRejected ==
    <<"i", "P", "h", "o", "n", "e", " ", "1", "2", " ", "i", "O", "S", " ", "1", "6", ".", "7">>

TitleTwoVersions ==
    <<"i", "O", "S", " ", "1", "6", ".", "2", " ", "(", "i", "O", "S", " ", "1", "7",
      " ", "o", "k", ")">>

TitleShort == <<"i", "o", "s", "1", "6">>

RunTitles == {TitleAccepted, TitleRejected, TitleTwoVersions, TitleShort}

\* (data-listingid, hrefs): id from the attribute, id from the URL, no id
EbayIdForms ==
    { << <<"7">>, << <<"/", "i", "t", "m", "/", "7">> >> >>,
      << <<>>, << <<>>, <<"/", "i", "t", "m", "/", "8", "?", "h">> >> >>,
      << <<>>, << <<"/", "p", "/", "9">> >> >> }

EbayElements ==
    { [listingid |-> f[1], hrefs |-> f[2], titles |-> << <<" ">>, t >>,
       prices |-> << <<"$", "3", "0", "0">> >>] : f \in EbayIdForms, t \in RunTitles }

SwappaHref(c) == <<"/", "l", "i", "s", "t", "i", "n", "g", "/", "v", "i", "e", "w", "/", c>>

SwappaLinks ==
    { [href |-> SwappaHref(c), parts |-> <<t>>, price |-> <<"3", "0", "0">>] :
          c \in {"A", "B", "C"}, t \in {TitleAccepted, TitleRejected} }
    \cup { [href |-> <<>>, parts |-> <<TitleAccepted>>, price |-> NoPrice] }

MajorChoices == { <<16, 17>>, <<17>> }

NoCall == [fn |-> "none"]

Init ==
    /\ source \in {"ebay", "swappa"}
    /\ major_versions \in MajorChoices
    /\ seen_ids = {}
    /\ listings = <<>>
    /\ log = <<>>
    /\ text = <<>>
    /\ call = NoCall

\* search_ebay handles one result element of a page
EbayItem(item) ==
    /\ source = "ebay"
    /\ Len(log) < MaxItems
    /\ LET r == ebay_item(item, major_versions, seen_ids, listings) IN
        /\ seen_ids' = r.seen
        /\ listings' = r.found
        /\ log' = Append(log, r.entry)
    /\ UNCHANGED <<source, major_versions, text, call>>

\* search_swappa handles the page of one model
SwappaModel(links) ==
    /\ source = "swappa"
    /\ Len(log) + Len(links) <= MaxItems
    /\ LET r == swappa_model(links, major_versions, seen_ids, listings) IN
        /\ seen_ids' = r.seen
        /\ listings' = r.found
        /\ log' = log \o r.entries
    /\ UNCHANGED <<source, major_versions, text, call>>

Next ==
    \/ \E item \in EbayElements : EbayItem(item)
    \/ \E n \in 1..MaxItems : \E links \in [1..n -> SwappaLinks] : SwappaModel(links)

Spec == Init /\ [][Next]_vars

----------------------------------------------------------------------------
(* Deduplication *)

SameId(i, j) == i < j /\ log[i].id = log[j].id /\ log[i].id # <<>> /\ log[j].text # <<>>

C2_NoIdAlwaysClassified ==
    \A j \in DOMAIN log :
        (source = "ebay" /\ log[j].id = <<>> /\ log[j].text # <<>>) => log[j].classified

----------------------------------------------------------------------------
(* The version utilities and the two validation pipelines applied to one   *)
(* free text.  The text is put together from fragments (the variable text  *)
(* holds the fragments), or is one of the example texts.                   *)

RECURSIVE Concat(_)
Concat(frags) == IF frags = <<>> THEN <<>> ELSE Head(frags) \o Concat(Tail(frags))

TextTokens ==
    { <<"i", "O", "S", " ", "1", "6">>,
      <<"i", "O", "S", " ", "1", "7">>,
      <<".", "2">>, <<".", "0">>, <<"0">>, <<"?">>, <<"x">>, <<" ">>,
      <<"i", "P", "h", "o", "n", "e", " ", "8", " ">>,
      <<"i", "P", "h", "o", "n", "e", " ", "1", "8", " ">> }

Ex_GreatPhone ==
    <<"i", "O", "S", " ", "1", "6", ".", "2", " ", "g", "r", "e", "a", "t", " ",
      "p", "h", "o", "n", "e">>

Ex_160_2 == <<"i", "O", "S", " ", "1", "6", "0", ".", "2">>

Ex_160 == <<"i", "O", "S", " ", "1", "6", "0">>

Ex_8Plus ==
    <<"i", "P", "h", "o", "n", "e", " ", "8", " ", "P", "l", "u", "s", " ", "6", "4",
      "G", "B", " ", "\"", "i", "O", "S", " ", "1", "7", ".", "0", "\"", " ", "U", "n",
      "l", "o", "c", "k", "e", "d", " ", "$", "1", "2", "0">>

Ex_Unlocked ==
    <<"i", "P", "h", "o", "n", "e", " ", "1", "3", ",", " ", "i", "O", "S", " ", "1",
      "6", ".", "5", ".", "1", ",", " ", "U", "n", "l", "o", "c", "k", "e", "d">>

TextExamples == {Ex_GreatPhone, Ex_160_2, Ex_160, Ex_8Plus, Ex_Unlocked}

TextMajorChoices == { <<16>>, <<16, 17>> }

TheText == Concat(text)

InitText ==
    /\ source = "text"
    /\ major_versions \in TextMajorChoices
    /\ seen_ids = {}
    /\ listings = <<>>
    /\ log = <<>>
    /\ text = <<>>
    /\ call = NoCall

AppendToken(tok) ==
    /\ call = NoCall
    /\ Len(text) < MaxTokens
    /\ \A k \in 1..Len(text) : text[k] \notin TextExamples
    /\ text' = Append(text, tok)
    /\ UNCHANGED <<source, major_versions, seen_ids, listings, log, call>>

TakeExample(ex) ==
    /\ call = NoCall
    /\ text = <<>>
    /\ text' = <<ex>>
    /\ UNCHANGED <<source, major_versions, seen_ids, listings, log, call>>

CallExtract ==
    /\ call = NoCall
    /\ call' = [fn |-> "extract_ios_version", ret |-> extract_ios_version(TheText)]
    /\ UNCHANGED <<source, major_versions, seen_ids, listings, log, text>>

CallMatches ==
    /\ call = NoCall
    /\ call' = [fn |-> "matches_target_versions",
                ret |-> matches_target_versions(TheText, major_versions)]
    /\ UNCHANGED <<source, major_versions, seen_ids, listings, log, text>>

\* search_ebay meets one element with this title
CallEbay ==
    /\ call = NoCall
    /\ LET item == [listingid |-> <<"7">>, hrefs |-> <<>>, titles |-> <<TheText>>,
                    prices |-> <<>>]
           r == ebay_item(item, major_versions, seen_ids, listings)
       IN /\ seen_ids' = r.seen
          /\ listings' = r.found
          /\ log' = Append(log, r.entry)
          /\ call' = [fn |-> "search_ebay", ret |-> r.entry.accepted]
    /\ UNCHANGED <<source, major_versions, text>>

\* search_swappa meets one link whose listing page has this seller text
CallSwappa ==
    /\ call = NoCall
    /\ LET link == [href |-> SwappaHref("A"), parts |-> <<TheText>>, price |-> NoPrice]
           r == swappa_model(<<link>>, major_versions, seen_ids, listings)
       IN /\ seen_ids' = r.seen
          /\ listings' = r.found
          /\ log' = log \o r.entries
          /\ call' = [fn |-> "search_swappa", ret |-> r.entries[1].accepted]
    /\ UNCHANGED <<source, major_versions, text>>

NextText ==
    \/ \E tok \in TextTokens : AppendToken(tok)
    \/ \E ex \in TextExamples : TakeExample(ex)
    \/ CallExtract
    \/ CallMatches
    \/ CallEbay
    \/ CallSwappa

SpecText == InitText /\ [][NextText]_vars

Range(seq) == {seq[k] : k \in 1..Len(seq)}

C5_QuestionMarkRejected ==
    Contains(TheText, <<"?">>) =>
        /\ call.fn = "matches_target_versions" => call.ret = FALSE
        /\ call.fn \in {"search_ebay", "search_swappa"} =>
              (call.ret = FALSE /\ listings = <<>>)

\* search_ebay met a text with "?" whose version claim is whitelisted,
\* compatible and of a requested major
C5_Witness ==
    /\ call.fn = "search_ebay"
    /\ Contains(TheText, <<"?">>)
    /\ is_jailbreakable_version(extract_ios_version(TheText))
    /\ is_device_compatible(TheText, MajorOf(extract_ios_version(TheText)))
    /\ StrToInt(MajorOf(extract_ios_version(TheText))) \in Range(major_versions)

\* u is empty, ".<digits>" or ".<digits>.<digits>"
IsDottedSuffix(u) ==
    \/ u = <<>>
    \/ /\ u[1] = "."
       /\ u[Len(u)] \in Digits
       /\ \A k \in 1..Len(u) : u[k] \in Digits \cup {"."}
       /\ \A k \in 1..(Len(u) - 1) : ~(u[k] = "." /\ u[k + 1] = ".")
       /\ Cardinality({k \in 1..Len(u) : u[k] = "."}) <= 2

\* s holds, from position i to just before position e, "ios", optional
\* whitespace, exactly the digits of m and an optional dotted minor/patch
IsMajorClaim(s, m, i, e) ==
    /\ OccursAt(s, Str_ios, i)
    /\ \E d \in (i + 3)..e :
          /\ \A k \in (i + 3)..(d - 1) : s[k] \in SpaceChars
          /\ OccursAt(s, IntToStr(m), d)
          /\ d + Len(IntToStr(m)) <= e
          /\ IsDottedSuffix(SubSeq(s, d + Len(IntToStr(m)), e - 1))

\* C6 as stated: such a claim anywhere in the text, ending at a non-digit or
\* at the end of the text
LooseMajorClaim(s, m) ==
    \E i \in 1..Len(s) : \E e \in i..(Len(s) + 1) :
        /\ IsMajorClaim(s, m, i, e)
        /\ (e > Len(s) \/ s[e] \notin Digits)

\* C6 as amended: the claim starts and ends at a word boundary
WordBoundedMajorClaim(s, m) ==
    \E i \in 1..Len(s) : \E e \in i..(Len(s) + 1) :
        /\ IsMajorClaim(s, m, i, e)
        /\ (i = 1 \/ s[i - 1] \notin WordChars)
        /\ (e > Len(s) \/ s[e] \notin WordChars)

\* C6 as stated: for a text without "?", matches_target_versions is true iff
\* for some requested major the text contains "ios", optional whitespace, the
\* digits of the major and an optional dotted minor/patch, ending at a
\* non-digit or the end of the text.
C6_DigitBounded ==
    (call.fn = "matches_target_versions" /\ ~Contains(TheText, <<"?">>)) =>
        (call.ret <=> \E m \in Range(major_versions) : LooseMajorClaim(Lower(TheText), m))

\* C6 (amended): for a text without "?", matches_target_versions is true iff
\* for some requested major the lower-cased text contains "ios" starting at a
\* word boundary, optional whitespace, exactly the digits of the major and an
\* optional dotted minor/patch, ending at a word boundary (the end of the
\* text or a character that is no letter, digit or underscore).  "iOS 16.2
\* great phone" matches [16,17]; "iOS 160.2" and "iOS 160" do not match [16].
C6_WordBounded ==
    /\ (call.fn = "matches_target_versions" /\ ~Contains(TheText, <<"?">>)) =>
          (call.ret <=>
              \E m \in Range(major_versions) : WordBoundedMajorClaim(Lower(TheText), m))
    /\ (call.fn = "matches_target_versions" /\ text = <<Ex_GreatPhone>>
            /\ major_versions = <<16, 17>>) => call.ret = TRUE
    /\ (call.fn = "matches_target_versions" /\ text \in {<<Ex_160_2>>, <<Ex_160>>}
            /\ major_versions = <<16>>) => call.ret = FALSE

\* a text where "ios 16" is followed by a letter: it ends at a non-digit but
\* not at a word boundary, and does not match
C6_Witness ==
    /\ call.fn = "matches_target_versions"
    /\ ~Contains(TheText, <<"?">>)
    /\ call.ret = FALSE
    /\ \E m \in Range(major_versions) : LooseMajorClaim(Lower(TheText), m)

\* C9: a record whose text names an iPhone 8 / 8 Plus ("iphone 8" without
\* "iphone 18") and whose extracted version has major 17 never becomes a
\* listing, in either pipeline, even when the version is whitelisted and
\* matches the target majors.
C9_Iphone8WithIos17Rejected ==
    LET v == extract_ios_version(TheText) IN
    ( /\ call.fn \in {"search_ebay", "search_swappa"}
      /\ Contains(Lower(TheText), iphone(<<"8">>))
      /\ ~Contains(Lower(TheText), iphone(<<"1", "8">>))
      /\ v # <<>>
      /\ StrToInt(MajorOf(v)) = 17 )
    => (call.ret = FALSE /\ listings = <<>>)

\* search_ebay met 'iPhone 8 Plus 64GB "iOS 17.0" Unlocked $120' with target
\* majors [16,17]: the version is whitelisted and matches
C9_Witness ==
    /\ call.fn = "search_ebay"
    /\ text = <<Ex_8Plus>>
    /\ major_versions = <<16, 17>>
    /\ is_jailbreakable_version(extract_ios_version(TheText))
    /\ matches_target_versions(TheText, major_versions)

----------------------------------------------------------------------------
(* is_device_compatible applied to a title put together from device        *)
(* fragments, or to an example title                                       *)

IPhone(model) == <<"i", "P", "h", "o", "n", "e", " ">> \o model

DevTokens ==
    { IPhone(<<"4", " ">>), IPhone(<<"1", "4", " ">>),
      IPhone(<<"5">>), IPhone(<<"1", "5", " ">>),
      IPhone(<<"6">>), IPhone(<<"1", "6", " ">>), <<"6", "s", " ">>,
      IPhone(<<"7">>), <<" ", "P", "l", "u", "s">>,
      IPhone(<<"S", "E", " ">>), <<"2", "n", "d", " ">>, <<"3", "r", "d">>,
      <<"2", "0", "2", "0">>, <<"2", "0", "2", "2">>,
      IPhone(<<"8", " ">>), IPhone(<<"1", "8", " ">>),
      IPhone(<<"X">>), <<" ">>, <<"X", "S", " ">>, <<"X", "R">>,
      <<"P", "r", "o">> }

Ex_14Pro ==
    <<"i", "P", "h", "o", "n", "e", " ", "1", "4", " ", "P", "r", "o", ",", " ",
      "i", "O", "S", " ", "1", "6", ".", "5">>

Ex_7 ==
    <<"i", "P", "h", "o", "n", "e", " ", "7", ",", " ", "i", "O", "S", " ", "1", "6",
      ".", "2">>

Ex_XS ==
    <<"i", "P", "h", "o", "n", "e", " ", "X", "S", ",", " ", "i", "O", "S", " ", "1",
      "7", ".", "0">>

Ex_8PlusShort ==
    <<"i", "P", "h", "o", "n", "e", " ", "8", " ", "P", "l", "u", "s", ",", " ",
      "i", "O", "S", " ", "1", "7", ".", "0">>

Ex_7Plus ==
    <<"i", "P", "h", "o", "n", "e", " ", "7", " ", "P", "l", "u", "s", " ", "1", "2",
      "8", "G", "B">>

DevExamples == {Ex_14Pro, Ex_7, Ex_XS, Ex_8PlusShort, Ex_7Plus}

CompatMajors == {15, 16, 17, 18}

InitCompat ==
    /\ source = "compat"
    /\ major_versions = <<16, 17>>
    /\ seen_ids = {}
    /\ listings = <<>>
    /\ log = <<>>
    /\ text = <<>>
    /\ call = NoCall

AppendDevToken(tok) ==
    /\ call = NoCall
    /\ Len(text) < MaxDevTokens
    /\ \A k \in 1..Len(text) : text[k] \notin DevExamples
    /\ text' = Append(text, tok)
    /\ UNCHANGED <<source, major_versions, seen_ids, listings, log, call>>

TakeDevExample(ex) ==
    /\ call = NoCall
    /\ text = <<>>
    /\ text' = <<ex>>
    /\ UNCHANGED <<source, major_versions, seen_ids, listings, log, call>>

CallCompatible(m) ==
    /\ call = NoCall
    /\ call' = [fn |-> "is_device_compatible", major |-> m,
                ret |-> is_device_compatible(TheText, IntToStr(m))]
    /\ UNCHANGED <<source, major_versions, seen_ids, listings, log, text>>

NextCompat ==
    \/ \E tok \in DevTokens : AppendDevToken(tok)
    \/ \E ex \in DevExamples : TakeDevExample(ex)
    \/ \E m \in CompatMajors : CallCompatible(m)

SpecCompat == InitCompat /\ [][NextCompat]_vars

\* the exclusion rules of the documentation: markers (anywhere in the
\* lower-cased title, or at its end), the guards that switch the rule off,
\* and the first iOS major the rule applies to
Rule(markers, atEnd, guards, from) ==
    [markers |-> markers, atEnd |-> atEnd, guards |-> guards, from |-> from]

ExclusionRules ==
    { Rule({iphone(<<"4">>)}, {}, {iphone(<<"1", "4">>)}, 16),
      Rule({iphone(<<"5">>)}, {}, {iphone(<<"1", "5">>)}, 16),
      Rule({iphone(<<"6">>)}, {}, {iphone(<<"1", "6">>), <<"6", "s">>}, 16),
      Rule({iphone(<<"7">>)}, {}, {<<"7", " ", "p", "l", "u", "s">>}, 16),
      Rule({iphone(<<"s", "e", " ">>)}, {},
           {<<"2", "n", "d">>, <<"3", "r", "d">>, <<"2", "0", "2", "0">>,
            <<"2", "0", "2", "2">>}, 16),
      Rule({iphone(<<"8">>)}, {}, {iphone(<<"1", "8">>)}, 17),
      Rule({iphone(<<"x", " ">>)}, {iphone(<<"x">>)}, {<<"x", "s">>, <<"x", "r">>}, 17) }

MarkerPresent(r, t) ==
    \/ \E mk \in r.markers : Contains(t, mk)
    \/ \E mk \in r.atEnd : EndsWith(t, mk)

RuleFires(r, t, m) ==
    /\ m >= r.from
    /\ MarkerPresent(r, t)
    /\ \A g \in r.guards : ~Contains(t, g)

\* C7: is_device_compatible is true for every title without an exclusion
\* marker that applies to the major, true for every title when the major is
\* below 16, and false only when an exclusion rule fires with none of its
\* guards present.
C7_Conservative ==
    call.fn = "is_device_compatible" =>
        LET t == Lower(TheText) IN
        /\ (\A r \in ExclusionRules : ~(call.major >= r.from /\ MarkerPresent(r, t)))
              => call.ret = TRUE
        /\ call.major < 16 => call.ret = TRUE
        /\ call.ret = FALSE => \E r \in ExclusionRules : RuleFires(r, t, call.major)

\* a title with the marker "iphone 4" and its guard "iphone 14" was found
\* compatible with iOS 16, and so no rule fired
C7_Witness ==
    /\ call.fn = "is_device_compatible"
    /\ call.major = 16
    /\ call.ret = TRUE
    /\ Contains(Lower(TheText), iphone(<<"4">>))
    /\ Contains(Lower(TheText), iphone(<<"1", "4">>))

\* C8 as stated: a title that names an iPhone 7 Plus ("iphone 7" and "7 plus",
\* no other marker) is incompatible with iOS 16 and with iOS 17.
C8_SevenPlusExcluded ==
    ( /\ call.fn = "is_device_compatible"
      /\ call.major \in {16, 17}
      /\ Contains(Lower(TheText), iphone(<<"7">>))
      /\ Contains(Lower(TheText), <<"7", " ", "p", "l", "u", "s">>)
      /\ \A r \in ExclusionRules :
            MarkerPresent(r, Lower(TheText)) => r.markers = {iphone(<<"7">>)} )
    => call.ret = FALSE

----------------------------------------------------------------------------
(* is_jailbreakable_version applied to "iOS " + v for a version string v   *)
(* put together from a major and dotted components, and to None            *)

VerTokens ==
    { <<"1", "5">>, <<"1", "6">>, <<"1", "7">>, <<"1", "8">>, <<"0">>,
      <<".", "0">>, <<".", "1">>, <<".", "2">>, <<".", "3">>, <<".", "4">>,
      <<".", "5">>, <<".", "6">>, <<".", "7">> }

InitVersion ==
    /\ source = "version"
    /\ major_versions = <<16, 17>>
    /\ seen_ids = {}
    /\ listings = <<>>
    /\ log = <<>>
    /\ text = <<>>
    /\ call = NoCall

AppendVerToken(tok) ==
    /\ call = NoCall
    /\ Len(text) < MaxVerTokens
    /\ text' = Append(text, tok)
    /\ UNCHANGED <<source, major_versions, seen_ids, listings, log, call>>

CallJailbreakable ==
    /\ call = NoCall
    /\ call' = [fn |-> "is_jailbreakable_version", arg |-> Str_iOS_ \o TheText,
                ret |-> is_jailbreakable_version(Str_iOS_ \o TheText)]
    /\ UNCHANGED <<source, major_versions, seen_ids, listings, log, text>>

\* the version is absent: is_jailbreakable_version(None)
CallJailbreakableNone ==
    /\ call = NoCall
    /\ text = <<>>
    /\ call' = [fn |-> "is_jailbreakable_version", arg |-> <<>>,
                ret |-> is_jailbreakable_version(<<>>)]
    /\ UNCHANGED <<source, major_versions, seen_ids, listings, log, text>>

NextVersion ==
    \/ \E tok \in VerTokens : AppendVerToken(tok)
    \/ CallJailbreakable
    \/ CallJailbreakableNone

SpecVersion == InitVersion /\ [][NextVersion]_vars

Ver1(a) == IntToStr(a)
Ver2(a, b) == IntToStr(a) \o <<".">> \o IntToStr(b)
Ver3(a, b, c) == IntToStr(a) \o <<".">> \o IntToStr(b) \o <<".">> \o IntToStr(c)

\* the versions listed under major 16: 16, 16.0 ... 16.6, 16.0.1 - 16.0.3,
\* 16.1.1, 16.1.2 and 16.x.1 for x = 2..6
Listed16 ==
    {Ver1(16)} \cup {Ver2(16, b) : b \in 0..6}
    \cup {Ver3(16, 0, c) : c \in 1..3}
    \cup {Ver3(16, 1, c) : c \in 1..2}
    \cup {Ver3(16, b, 1) : b \in 2..6}

Listed17 == {Ver1(17), Ver2(17, 0)}

\* C4: is_jailbreakable_version("iOS " + v) is true iff v is one of the 18
\* versions listed under major 16 or one of 17, 17.0; an absent version
\* yields false.
C4_WhitelistMembership ==
    /\ Cardinality(Listed16) = 18
    /\ call.fn = "is_jailbreakable_version" =>
          IF call.arg = <<>> THEN call.ret = FALSE
          ELSE call.ret <=> (TheText \in Listed16 \cup Listed17)

\* the ceiling 16.6.1 was found jailbreakable
C4_Witness ==
    /\ call.fn = "is_jailbreakable_version"
    /\ TheText = Ver3(16, 6, 1)
    /\ call.ret = TRUE

----------------------------------------------------------------------------
(* Results Processing.  price_num is held in hundredths (450.0 is 45000);  *)
(* the prices of the model have at most two fraction digits.               *)

device_map ==
    << <<<<"1", "5", " ", "p", "r", "o", " ", "m", "a", "x">>, "iPhone 15 Pro Max", 1>>,
       <<<<"1", "5", " ", "p", "r", "o">>, "iPhone 15 Pro", 2>>,
       <<<<"1", "5", " ", "p", "l", "u", "s">>, "iPhone 15 Plus", 3>>,
       <<<<"i", "p", "h", "o", "n", "e", " ", "1", "5">>, "iPhone 15", 4>>,
       <<<<"1", "4", " ", "p", "r", "o", " ", "m", "a", "x">>, "iPhone 14 Pro Max", 5>>,
       <<<<"1", "4", " ", "p", "r", "o">>, "iPhone 14 Pro", 6>>,
       <<<<"1", "4", " ", "p", "l", "u", "s">>, "iPhone 14 Plus", 7>>,
       <<<<"i", "p", "h", "o", "n", "e", " ", "1", "4">>, "iPhone 14", 8>>,
       <<<<"1", "3", " ", "p", "r", "o", " ", "m", "a", "x">>, "iPhone 13 Pro Max", 9>>,
       <<<<"1", "3", " ", "p", "r", "o">>, "iPhone 13 Pro", 10>>,
       <<<<"1", "3", " ", "m", "i", "n", "i">>, "iPhone 13 Mini", 11>>,
       <<<<"i", "p", "h", "o", "n", "e", " ", "1", "3">>, "iPhone 13", 12>>,
       <<<<"1", "2", " ", "p", "r", "o", " ", "m", "a", "x">>, "iPhone 12 Pro Max", 13>>,
       <<<<"1", "2", " ", "p", "r", "o">>, "iPhone 12 Pro", 14>>,
       <<<<"1", "2", " ", "m", "i", "n", "i">>, "iPhone 12 Mini", 15>>,
       <<<<"i", "p", "h", "o", "n", "e", " ", "1", "2">>, "iPhone 12", 16>>,
       <<<<"1", "1", " ", "p", "r", "o", " ", "m", "a", "x">>, "iPhone 11 Pro Max", 17>>,
       <<<<"1", "1", " ", "p", "r", "o">>, "iPhone 11 Pro", 18>>,
       <<<<"i", "p", "h", "o", "n", "e", " ", "1", "1">>, "iPhone 11", 19>>,
       <<<<"x", "s", " ", "m", "a", "x">>, "iPhone XS Max", 20>>,
       <<<<"i", "p", "h", "o", "n", "e", " ", "x", "s">>, "iPhone XS", 21>>,
       <<<<"i", "p", "h", "o", "n", "e", " ", "x", "r">>, "iPhone XR", 22>>,
       <<<<"i", "p", "h", "o", "n", "e", " ", "x">>, "iPhone X", 23>>,
       <<<<"s", "e", " ", "3">>, "iPhone SE 3rd Gen", 24>>,
       <<<<"s", "e", " ", "2", "0", "2", "2">>, "iPhone SE 3rd Gen", 24>>,
       <<<<"3", "r", "d", " ", "g", "e", "n">>, "iPhone SE 3rd Gen", 24>>,
       <<<<"s", "e", " ", "2">>, "iPhone SE 2nd Gen", 25>>,
       <<<<"s", "e", " ", "2", "0", "2", "0">>, "iPhone SE 2nd Gen", 25>>,
       <<<<"2", "n", "d", " ", "g", "e", "n">>, "iPhone SE 2nd Gen", 25>>,
       <<<<"i", "p", "h", "o", "n", "e", " ", "s", "e">>, "iPhone SE", 26>>,
       <<<<"8", " ", "p", "l", "u", "s">>, "iPhone 8 Plus", 27>>,
       <<<<"i", "p", "h", "o", "n", "e", " ", "8">>, "iPhone 8", 28>>,
       <<<<"i", "p", "h", "o", "n", "e", " ", "7">>, "iPhone 7", 29>> >>

RECURSIVE FirstDevice(_, _)
\* the loop over device_map: <<name, order>> of the first pattern in the title
FirstDevice(title_lower, k) ==
    IF k > Len(device_map) THEN <<"Other iPhone", 50>>
    ELSE IF Contains(title_lower, device_map[k][1])
         THEN <<device_map[k][2], device_map[k][3]>>
         ELSE FirstDevice(title_lower, k + 1)

\* mutation: the title is searched as it is written
get_device_info_case_sensitive(title) == FirstDevice(title, 1)

get_device_info(title) == FirstDevice(Lower(title), 1)

(* A Python float is a record: nan says it is not-a-number, inf is -1, 0    *)
(* or 1 for minus infinity, a finite value and plus infinity, and v is the  *)
(* finite value in hundredths.                                              *)
PriceScale == 100

Float(v) == [nan |-> FALSE, inf |-> 0, v |-> v]

NaN == [nan |-> TRUE, inf |-> 0, v |-> 0]

Infinity == [nan |-> FALSE, inf |-> 1, v |-> 0]

FloatNeg(x) == [nan |-> x.nan, inf |-> 0 - x.inf, v |-> 0 - x.v]

\* x < y on floats: every comparison with a NaN is false
FloatLess(x, y) ==
    /\ ~x.nan
    /\ ~y.nan
    /\ \/ x.inf < y.inf
       \/ x.inf = 0 /\ y.inf = 0 /\ x.v < y.v

\* the int 999999 returned by parse_price, which compares like 999999.0
PriceSentinel == Float(999999 * PriceScale)

\* the value of up to two fraction digits, in hundredths
FracHundredths(f) ==
    IF Len(f) = 0 THEN 0
    ELSE IF Len(f) = 1 THEN 10 * DigitVal[f[1]]
    ELSE 10 * DigitVal[f[1]] + DigitVal[f[2]]

\* float(tok) for an unsigned token: [ok, val].  The decimal forms <digits>,
\* <digits>.<digits>, <digits>. and .<digits> parse, and so do the words
\* nan, inf and infinity in any case.  (Exponents, underscores and digits
\* outside 0-9 also parse in Python; no price of the exploration holds one.)
UnsignedFloat(tok) ==
    LET n == RunLen(tok, 1, Digits)
        hasDot == n < Len(tok) /\ tok[n + 1] = "."
        f == IF hasDot THEN RunLen(tok, n + 2, Digits) ELSE 0
        whole == IF hasDot THEN n + 1 + f = Len(tok) ELSE n = Len(tok)
    IN IF Lower(tok) = <<"n", "a", "n">> THEN [ok |-> TRUE, val |-> NaN]
       ELSE IF Lower(tok) \in {<<"i", "n", "f">>,
                               <<"i", "n", "f", "i", "n", "i", "t", "y">>}
       THEN [ok |-> TRUE, val |-> Infinity]
       ELSE IF whole /\ n + f > 0
       THEN [ok |-> TRUE,
             val |-> Float(StrToInt(SubSeq(tok, 1, n)) * PriceScale
                           + FracHundredths(SubSeq(tok, n + 2, n + 1 + f)))]
       ELSE [ok |-> FALSE, val |-> Float(0)]

\* float(tok): an optional sign, then an unsigned value
ParseFloat(tok) ==
    IF tok # <<>> /\ tok[1] = "-"
    THEN LET u == UnsignedFloat(Tail(tok)) IN [ok |-> u.ok, val |-> FloatNeg(u.val)]
    ELSE IF tok # <<>> /\ tok[1] = "+" THEN UnsignedFloat(Tail(tok))
    ELSE UnsignedFloat(tok)

\* mutation: the "$" stays in the string handed to float
parse_price_keeping_dollar(price_str) ==
    IF price_str = <<>> THEN PriceSentinel
    ELSE LET cleaned == Strip(Replace(price_str, <<",">>, <<>>))
             first == UpTo(cleaned, SpaceChars)
         IN IF first = <<>> THEN PriceSentinel
            ELSE IF ParseFloat(first).ok THEN ParseFloat(first).val
            ELSE PriceSentinel

parse_price(price_str) ==
    IF price_str = <<>> THEN PriceSentinel
    ELSE LET cleaned == Strip(Replace(Replace(price_str, <<"$">>, <<>>), <<",">>, <<>>))
             first == UpTo(cleaned, SpaceChars)
         IN IF first = <<>> THEN PriceSentinel
            ELSE IF ParseFloat(first).ok THEN ParseFloat(first).val
            ELSE PriceSentinel

RECURSIVE ThenStar(_, _, _)
\* every candidate <<start, end>> of cands continued by cls*
ThenStar(s, cands, cls) ==
    IF cands = <<>> THEN <<>>
    ELSE LET c == Head(cands)
             ends == ReStar(s, c[2], cls)
         IN [k \in 1..Len(ends) |-> <<c[1], ends[k]>>] \o ThenStar(s, Tail(cands), cls)

RECURSIVE FirstUnit(_, _)
\* the first candidate continued by [GT]B (ignoring case), with its new end
FirstUnit(s, cands) ==
    IF cands = <<>> THEN <<>>
    ELSE LET p == Head(cands)[2] IN
         IF /\ p + 1 <= Len(s)
            /\ LowerChar(s[p]) \in {"g", "t"}
            /\ LowerChar(s[p + 1]) = "b"
         THEN <<Head(cands)[1], p + 2>>
         ELSE FirstUnit(s, Tail(cands))

RECURSIVE StorageSearch(_, _)
\* re.search(r'(\d+)\s*[GT]B', title, re.I) from position i: <<start, end>>
StorageSearch(s, i) ==
    IF i > Len(s) THEN <<>>
    ELSE LET m == FirstUnit(s, ThenStar(s, ThenDigits(s, <<i>>), SpaceChars))
         IN IF m # <<>> THEN m ELSE StorageSearch(s, i + 1)

\* the body of `for listing in listings` of process_results
Enrich(listing) ==
    LET title == Get(listing, "title", <<>>)
        info == get_device_info(title)
        l1 == Put(listing, "device", info[1])
        l2 == Put(l1, "device_order", info[2])
        l3 == Put(l2, "price_num", parse_price(Get(listing, "price", <<>>)))
        l4 == Put(l3, "is_jailbroken",
                  Contains(Lower(title), <<"j", "a", "i", "l", "b", "r">>))
        storage_match == StorageSearch(title, 1)
    IN IF storage_match # <<>>
       THEN Put(l4, "storage", SubSeq(title, storage_match[1], storage_match[2] - 1))
       ELSE l4

\* mutation: equal keys count as smaller, so ties change places
KeyLess_orEqual(x, y) ==
    \/ x.device_order < y.device_order
    \/ /\ x.device_order = y.device_order
       /\ ~FloatLess(y.price_num, x.price_num)

\* (x['device_order'], x['price_num']) < (y['device_order'], y['price_num'])
\* as tuples compare: by the first component in which they are not equal
KeyLess(x, y) ==
    \/ x.device_order < y.device_order
    \/ /\ x.device_order = y.device_order
       /\ FloatLess(x.price_num, y.price_num)

(* list.sort on a list shorter than 64 elements: the leading run is found   *)
(* (and reversed when it is strictly descending), then every further        *)
(* element is placed by binary insertion.                                   *)
RECURSIVE RunEnd(_, _, _)
\* the last index of the run that starts at 1 and reaches at least i
RunEnd(a, i, descending) ==
    IF i = Len(a) THEN i
    ELSE IF KeyLess(a[i + 1], a[i]) = descending
         THEN RunEnd(a, i + 1, descending)
         ELSE i

Reverse(a) == [k \in 1..Len(a) |-> a[Len(a) + 1 - k]]

RECURSIVE BinarySearch(_, _, _, _)
\* where pivot goes in the sorted a[l..r-1]
BinarySearch(a, pivot, l, r) ==
    IF l >= r THEN l
    ELSE LET p == l + ((r - l) \div 2)
         IN IF KeyLess(pivot, a[p])
            THEN BinarySearch(a, pivot, l, p)
            ELSE BinarySearch(a, pivot, p + 1, r)

RECURSIVE BinarySort(_, _)
\* a[1..start-1] is sorted; the elements from start on are inserted in turn
BinarySort(a, start) ==
    IF start > Len(a) THEN a
    ELSE LET pivot == a[start]
             l == BinarySearch(a, pivot, 1, start)
         IN BinarySort(SubSeq(a, 1, l - 1) \o <<pivot>>
                         \o SubSeq(a, l, start - 1)
                         \o SubSeq(a, start + 1, Len(a)),
                       start + 1)

\* listings.sort(key=lambda x: (x['device_order'], x['price_num']))
SortByKey(a) ==
    IF Len(a) < 2 THEN a
    ELSE LET descending == KeyLess(a[2], a[1])
             n == RunEnd(a, 2, descending)
             run == IF descending THEN Reverse(SubSeq(a, 1, n)) ELSE SubSeq(a, 1, n)
         IN BinarySort(run \o SubSeq(a, n + 1, Len(a)), n + 1)

process_results(ls) == SortByKey([k \in 1..Len(ls) |-> Enrich(ls[k])])

RECURSIVE GroupIndex(_, _, _)
\* the position of key device in the ordered mapping, 0 when it is absent
GroupIndex(grouped, device, k) ==
    IF k > Len(grouped) THEN 0
    ELSE IF grouped[k][1] = device THEN k
         ELSE GroupIndex(grouped, device, k + 1)

RECURSIVE GroupFrom(_, _, _)
\* the loop of group_by_device from listing k on; the OrderedDict is the
\* sequence of its <<key, list>> items in insertion order
GroupFrom(grouped, ls, k) ==
    IF k > Len(ls) THEN grouped
    ELSE LET device == Get(ls[k], "device", "Other")
             at == GroupIndex(grouped, device, 1)
         IN IF at = 0
            THEN GroupFrom(Append(grouped, <<device, <<ls[k]>>>>), ls, k + 1)
            ELSE GroupFrom([grouped EXCEPT ![at] = <<device, Append(@[2], ls[k])>>],
                           ls, k + 1)

group_by_device(ls) == GroupFrom(<<>>, ls, 1)

Title_14Pro ==
    <<"i", "P", "h", "o", "n", "e", " ", "1", "4", " ", "P", "r", "o", ",", " ", "i", "O", "S", " ", "1", "6", ".", "4", ",", " ", "$", "4", "5", "0">>

Title_13 ==
    <<"i", "P", "h", "o", "n", "e", " ", "1", "3", ",", " ", "i", "O", "S", " ", "1", "6", ".", "2", ",", " ", "$", "3", "0", "0">>

Title_13JB ==
    <<"i", "P", "h", "o", "n", "e", " ", "1", "3", " ", "1", "2", "8", "G", "B", " ", "J", "a", "i", "l", "b", "r", "o", "k", "e", "n">>

Title_Other == <<"i", "1", "6", " ", "1", " ", "T", "B">>

OnlyTitle(t) == [title |-> t]

Priced(t, p) == [title |-> t, price |-> p]

CollectedListings ==
    { OnlyTitle(Title_14Pro),
      OnlyTitle(Title_13),
      Priced(Title_14Pro, <<"$", "4", "5", "0", ".", "0", "0">>),
      Priced(Title_13, <<"$", "3", "0", "0">>),
      Priced(Title_13JB, <<"$", "3", "0", "0">>),
      Priced(Title_13JB, <<"$", "1", ",", "2", "9", "9", ".", "9", "9", " ", "o", "b", "o">>),
      Priced(Title_Other, <<"F", "r", "e", "e">>),
      Priced(Title_13, <<"N", "a", "N">>) }

InitResults ==
    /\ source = "results"
    /\ major_versions = <<16, 17>>
    /\ seen_ids = {}
    /\ listings = <<>>
    /\ log = <<>>
    /\ text = <<>>
    /\ call = NoCall

\* main extends all_listings with what a search returned
Collect(l) ==
    /\ call = NoCall
    /\ Len(listings) < MaxListings
    /\ listings' = Append(listings, l)
    /\ UNCHANGED <<source, major_versions, seen_ids, log, text, call>>

\* main, display_results and create_notes_entry each call process_results on
\* the same list; arg is the list as it was handed in
ProcessResults ==
    /\ listings # <<>>
    /\ (IF call = NoCall THEN 0 ELSE call.runs) < MaxRuns
    /\ call' = [fn |-> "process_results",
                runs |-> (IF call = NoCall THEN 0 ELSE call.runs) + 1,
                arg |-> listings,
                ret |-> <<>>]
    /\ listings' = process_results(listings)
    /\ UNCHANGED <<source, major_versions, seen_ids, log, text>>

\* display_results and create_notes_entry group what process_results gave
GroupByDevice ==
    /\ call # NoCall
    /\ call.fn = "process_results"
    /\ call.runs >= 2
    /\ call' = [fn |-> "group_by_device",
                runs |-> call.runs,
                arg |-> listings,
                ret |-> group_by_device(listings)]
    /\ UNCHANGED <<source, major_versions, seen_ids, listings, log, text>>

NextResults ==
    \/ \E l \in CollectedListings : Collect(l)
    \/ ProcessResults
    \/ GroupByDevice

SpecResults == InitResults /\ [][NextResults]_vars

\* C10: a further process_results on its own output changes neither a field
\* of a listing (device, device_order, price_num, is_jailbroken, storage) nor
\* the order of the list.
C10_Idempotent ==
    (call.fn = "process_results" /\ call.runs >= 2) => listings = call.arg

\* process_results ran twice on a list that holds two different listings
\* with equal sort keys, one of them with a storage field
C10_Witness ==
    /\ call.fn = "process_results"
    /\ call.runs = 2
    /\ \E i, j \in DOMAIN listings :
          /\ i < j
          /\ listings[i] # listings[j]
          /\ ~KeyLess(listings[i], listings[j])
          /\ ~KeyLess(listings[j], listings[i])
          /\ "storage" \in DOMAIN listings[j]

----------------------------------------------------------------------------
(* The order process_results leaves the list in.                            *)

\* the listings process_results sorts: those of its argument, enriched
EnrichedArg == [k \in 1..Len(call.arg) |-> Enrich(call.arg[k])]

\* x <= y and x = y on floats; like <, both are false when a NaN is involved
FloatLeq(x, y) == ~x.nan /\ ~y.nan /\ ~FloatLess(y, x)

FloatEq(x, y) == FloatLeq(x, y) /\ FloatLeq(y, x)

\* (device_order, price_num) of x is not greater than, or equal to, that of y
KeyLeq(x, y) ==
    \/ x.device_order < y.device_order
    \/ x.device_order = y.device_order /\ FloatLeq(x.price_num, y.price_num)

KeyEq(x, y) ==
    x.device_order = y.device_order /\ FloatEq(x.price_num, y.price_num)

\* out holds the elements of inp, each once, in non-decreasing key order,
\* and elements with equal keys in the order they have in inp
IsStableSortOf(out, inp) ==
    /\ Len(out) = Len(inp)
    /\ \A k \in 1..(Len(out) - 1) : KeyLeq(out[k], out[k + 1])
    /\ \E p \in [1..Len(out) -> 1..Len(out)] :
          /\ \A i, j \in 1..Len(out) : i # j => p[i] # p[j]
          /\ \A k \in 1..Len(out) : out[k] = inp[p[k]]
          /\ \A i, j \in 1..Len(out) :
                (i < j /\ KeyEq(out[i], out[j])) => p[i] < p[j]

\* C11: the list process_results returns is a permutation of its (enriched)
\* input in which each adjacent pair is non-decreasing in (device_order,
\* price_num) and listings with equal keys keep their input order.
C11_StableAscending ==
    call.fn = "process_results" => IsStableSortOf(listings, EnrichedArg)

\* the same, for lists none of whose prices parses to a NaN
C11_StableAscendingNoNaN ==
    (/\ call.fn = "process_results"
     /\ \A k \in DOMAIN listings : ~listings[k].price_num.nan)
    => IsStableSortOf(listings, EnrichedArg)

----------------------------------------------------------------------------
(* The grouped report.                                                      *)

RECURSIVE ConcatGroups(_)
\* the lists of the groups, one after the other in key order
ConcatGroups(grouped) ==
    IF grouped = <<>> THEN <<>>
    ELSE Head(grouped)[2] \o ConcatGroups(Tail(grouped))

\* what the claim says of the mapping grouped made from the sorted list ls
IsGroupedReportOf(grouped, ls) ==
    /\ \A g \in DOMAIN grouped :
          /\ grouped[g][2] # <<>>
          /\ \A k \in DOMAIN grouped[g][2] : grouped[g][2][k].device = grouped[g][1]
          /\ \A k \in 1..(Len(grouped[g][2]) - 1) :
                FloatLeq(grouped[g][2][k].price_num, grouped[g][2][k + 1].price_num)
    /\ \A g, h \in DOMAIN grouped :
          g < h => grouped[g][2][1].device_order < grouped[h][2][1].device_order
    /\ ConcatGroups(grouped) = ls

\* C12: group_by_device puts each listing of a list sorted by
\* process_results in exactly one group, the one keyed by its device; the
\* keys come in strictly ascending device_order, each group is ascending in
\* price_num, and the groups concatenated in key order are the sorted list.
C12_GroupedReportOrdering ==
    call.fn = "group_by_device" => IsGroupedReportOf(call.ret, call.arg)

\* the same, for lists none of whose prices parses to a NaN
C12_GroupedReportOrderingNoNaN ==
    (/\ call.fn = "group_by_device"
     /\ \A k \in DOMAIN call.arg : ~call.arg[k].price_num.nan)
    => IsGroupedReportOf(call.ret, call.arg)

----------------------------------------------------------------------------
(* The two listings of the end-to-end example.                              *)

Price_450 == <<"$", "4", "5", "0", ".", "0", "0">>

Price_300 == <<"$", "3", "0", "0">>

\* the report has the two groups "iPhone 14 Pro" and "iPhone 13", in this
\* order, of one listing each, with price_num p14 and p13
TwoGroupReport(grouped, p14, p13) ==
    /\ Len(grouped) = 2
    /\ grouped[1][1] = "iPhone 14 Pro"
    /\ grouped[2][1] = "iPhone 13"
    /\ Len(grouped[1][2]) = 1
    /\ Len(grouped[2][2]) = 1
    /\ grouped[1][2][1].device_order = 6
    /\ grouped[2][2][1].device_order = 12
    /\ grouped[1][2][1].price_num = p14
    /\ grouped[2][2][1].price_num = p13

\* the listing as it was collected: without the fields process_results adds
Raw(listing) ==
    [k \in DOMAIN listing \ {"device", "device_order", "price_num",
                               "is_jailbroken", "storage"} |-> listing[k]]

\* the report was made from the two listings a and b, collected in either
\* order
ReportOfBoth(a, b) ==
    /\ call.fn = "group_by_device"
    /\ Len(call.arg) = 2
    /\ {Raw(call.arg[1]), Raw(call.arg[2])} = {a, b}

\* C13 as stated: the two listings given by their titles alone, in either
\* order, come out as groups ["iPhone 14 Pro", "iPhone 13"] of one listing
\* each with price_num 450.0 and 300.0.
C13_EndToEndFromTitles ==
    ReportOfBoth(OnlyTitle(Title_14Pro), OnlyTitle(Title_13))
    => TwoGroupReport(call.ret, Float(450 * PriceScale), Float(300 * PriceScale))

\* C13: the two listings, in either order, come out as groups
\* ["iPhone 14 Pro", "iPhone 13"] of one listing each; price_num is 450.0
\* and 300.0 when their price fields are "$450.00" and "$300", and 999999
\* for both when they have a title only.
C13_EndToEndFromPriceFields ==
    /\ ReportOfBoth(Priced(Title_14Pro, Price_450), Priced(Title_13, Price_300))
       => TwoGroupReport(call.ret, Float(450 * PriceScale), Float(300 * PriceScale))
    /\ ReportOfBoth(OnlyTitle(Title_14Pro), OnlyTitle(Title_13))
       => TwoGroupReport(call.ret, Float(999999 * PriceScale), Float(999999 * PriceScale))

\* the report was built from the two listings with their price fields
C13_Witness ==
    /\ ReportOfBoth(Priced(Title_14Pro, Price_450), Priced(Title_13, Price_300))
    /\ Len(call.ret) = 2

----------------------------------------------------------------------------
(* Prices that do not parse.                                                *)

\* the first whitespace-delimited token of the price without "$" and ","
FirstPriceToken(price_str) ==
    UpTo(Strip(Replace(Replace(price_str, <<"$">>, <<>>), <<",">>, <<>>)), SpaceChars)

\* the price of the listing is absent, or its first token is no number
Unparsable(listing) ==
    LET price_str == Get(listing, "price", <<>>)
    IN \/ price_str = <<>>
       \/ ~ParseFloat(FirstPriceToken(price_str)).ok

\* in the processed list ls, price_num is the sentinel exactly for the
\* listings with an unparsable price, and each of those comes after every
\* listing of its device whose parsed price is below 999999
UnparsableSortLast(ls) ==
    /\ \A k \in DOMAIN ls : (ls[k].price_num = PriceSentinel) <=> Unparsable(ls[k])
    /\ \A i, j \in DOMAIN ls :
          (/\ Unparsable(ls[i])
           /\ ~Unparsable(ls[j])
           /\ ls[i].device = ls[j].device
           /\ FloatLess(ls[j].price_num, PriceSentinel))
          => j < i

\* C14: parse_price returns the sentinel 999999 exactly when the price is
\* absent or its first token (after removing "$" and ",") does not parse as
\* a number, and a listing with an unparsable price sorts after every
\* listing of the same device that has a parsed price below 999999.
C14_UnparsableSortLast ==
    call.fn = "process_results" => UnparsableSortLast(listings)

\* the same, for lists none of whose prices parses to a NaN
C14_UnparsableSortLastNoNaN ==
    (/\ call.fn = "process_results"
     /\ \A k \in DOMAIN listings : ~listings[k].price_num.nan)
    => UnparsableSortLast(listings)

----------------------------------------------------------------------------
(* The two orders of the checks.                                            *)

\* the four checks on text t, each on its own
VersionFound(t) == extract_ios_version(t) # <<>>

MajorRequested(t, majors) == matches_target_versions(t, majors)

DeviceCanRun(t) ==
    is_device_compatible(t, MajorOf(extract_ios_version(t)))

VersionListed(t) == is_jailbreakable_version(extract_ios_version(t))

AllFourChecks(t, majors) ==
    /\ VersionFound(t)
    /\ MajorRequested(t, majors)
    /\ DeviceCanRun(t)
    /\ VersionListed(t)

\* the text the pipeline of the last call worked on: a title as it is, a
\* seller text with the blank _check_swappa_listing puts after each part
PipelineText ==
    IF call.fn = "search_swappa" THEN TheText \o <<" ">> ELSE TheText

\* C15: a record is accepted iff the version is found, its major is
\* requested, the device can run it and it is whitelisted; the decision and
\* the ios_version are the same whether compatibility is checked before the
\* whitelist (search_ebay) or after it (_check_swappa_listing).
C15_PipelineEquivalence ==
    call.fn \in {"search_ebay", "search_swappa"} =>
        LET e == ebay_validate(PipelineText, major_versions)
            s == swappa_validate(PipelineText, major_versions)
        IN /\ e = s
           /\ call.ret = (e # <<>>)
           /\ call.ret = AllFourChecks(PipelineText, major_versions)
           /\ call.ret =>
                 /\ Len(listings) = 1
                 /\ listings[1].ios_version = extract_ios_version(PipelineText)
           /\ ~call.ret => listings = <<>>

\* a record went through a pipeline whose two orders stop at different
\* checks: the version is found and requested, but the device cannot run it
\* and it is not whitelisted either
C15_Witness ==
    /\ call.fn \in {"search_ebay", "search_swappa"}
    /\ VersionFound(PipelineText)
    /\ MajorRequested(PipelineText, major_versions)
    /\ ~DeviceCanRun(PipelineText)
    /\ ~VersionListed(PipelineText)

----------------------------------------------------------------------------
(* Specification for get_device_info: a title is put together from         *)
(* fragments and looked up.                                                 *)

InfoTokens ==
    { <<"i", "P", "h", "o", "n", "e", " ", "1", "5">>,
      <<" ", "P", "r", "o">>,
      <<" ", "M", "a", "x">>,
      <<"i", "P", "h", "o", "n", "e", " ", "S", "E", " ">>,
      <<"2">>,
      <<"0", "2", "0">>,
      <<"0", "2", "2">>,
      <<"i", "P", "h", "o", "n", "e", " ", "X">>,
      <<"S">>,
      <<"3", "r", "d", " ", "g", "e", "n">> }

InitInfo ==
    /\ source = "device_info"
    /\ major_versions = <<16, 17>>
    /\ seen_ids = {}
    /\ listings = <<>>
    /\ log = <<>>
    /\ text = <<>>
    /\ call = NoCall

AppendInfoToken(tok) ==
    /\ call = NoCall
    /\ Len(text) < MaxInfoTokens
    /\ text' = Append(text, tok)
    /\ UNCHANGED <<source, major_versions, seen_ids, listings, log, call>>

CallDeviceInfo ==
    /\ call = NoCall
    /\ call' = [fn |-> "get_device_info", ret |-> get_device_info(TheText)]
    /\ UNCHANGED <<source, major_versions, seen_ids, listings, log, text>>

NextInfo ==
    \/ \E tok \in InfoTokens : AppendInfoToken(tok)
    \/ CallDeviceInfo

SpecInfo == InitInfo /\ [][NextInfo]_vars

\* pattern k of the table occurs in the lower-cased title t
PatternIn(t, k) == Contains(Lower(t), device_map[k][1])

\* r is (name, rank) of the first entry whose pattern occurs in t, or
\* ("Other iPhone", 50) when no pattern does
FirstMatchWins(t, r) ==
    \/ \E k \in DOMAIN device_map :
          /\ PatternIn(t, k)
          /\ \A j \in 1..(k - 1) : ~PatternIn(t, j)
          /\ r = <<device_map[k][2], device_map[k][3]>>
    \/ /\ \A k \in DOMAIN device_map : ~PatternIn(t, k)
       /\ r = <<"Other iPhone", 50>>

\* pattern i holds pattern j and is longer
ProperSuperstring(i, j) ==
    /\ Len(device_map[i][1]) > Len(device_map[j][1])
    /\ Contains(device_map[i][1], device_map[j][1])

SameDevice(i, j) ==
    /\ device_map[i][2] = device_map[j][2]
    /\ device_map[i][3] = device_map[j][3]

\* C16 as stated: get_device_info returns the first entry in table order
\* whose pattern is in the lower-cased title (else "Other iPhone", 50), and
\* every pattern that is a proper superstring of another one is placed
\* before it.
C16_SuperstringsFirst ==
    call.fn = "get_device_info" =>
        /\ FirstMatchWins(TheText, call.ret)
        /\ \A i, j \in DOMAIN device_map : ProperSuperstring(i, j) => i < j

\* C16: get_device_info returns the first entry in table order whose
\* pattern is in the lower-cased title (else "Other iPhone", 50), and every
\* pattern that is a proper superstring of another one either is placed
\* before it or names the same device with the same rank.
C16_SuperstringsFirstOrSameDevice ==
    call.fn = "get_device_info" =>
        /\ FirstMatchWins(TheText, call.ret)
        /\ \A i, j \in DOMAIN device_map :
              ProperSuperstring(i, j) => (i < j \/ SameDevice(i, j))

\* a title with "se 2020" was looked up: the entry of "se 2" answers
C16_Witness ==
    /\ call.fn = "get_device_info"
    /\ Contains(Lower(TheText), <<"s", "e", " ", "2", "0", "2", "0">>)
    /\ call.ret = <<"iPhone SE 2nd Gen", 25>>

----------------------------------------------------------------------------
(* Specification for generate_version_queries: a list of requested majors  *)
(* is put together and the queries for it are generated.                    *)

QueryMajors == {15, 16, 17, 18}

InitQueries ==
    /\ source = "queries"
    /\ major_versions = <<>>
    /\ seen_ids = {}
    /\ listings = <<>>
    /\ log = <<>>
    /\ text = <<>>
    /\ call = NoCall

AppendMajor(m) ==
    /\ call = NoCall
    /\ Len(major_versions) < MaxMajors
    /\ major_versions' = Append(major_versions, m)
    /\ UNCHANGED <<source, seen_ids, listings, log, text, call>>

CallGenerateQueries ==
    /\ call = NoCall
    /\ call' = [fn |-> "generate_version_queries",
                ret |-> generate_version_queries(major_versions)]
    /\ UNCHANGED <<source, major_versions, seen_ids, listings, log, text>>

NextQueries ==
    \/ \E m \in QueryMajors : AppendMajor(m)
    \/ CallGenerateQueries

SpecQueries == InitQueries /\ [][NextQueries]_vars

Whitelisted(m) == m \in DOMAIN JAILBREAKABLE

IsQuoted(q) == q # <<>> /\ q[Len(q)] = "\""

RECURSIVE SelectQueries(_, _)
\* the quoted (or the unquoted) queries of qs, in their order
SelectQueries(qs, quoted) ==
    IF qs = <<>> THEN <<>>
    ELSE (IF IsQuoted(Head(qs)) = quoted THEN <<Head(qs)>> ELSE <<>>)
         \o SelectQueries(Tail(qs), quoted)

RECURSIVE ExpectedQuoted(_)
\* one quoted query per whitelisted version of each requested major, in
\* whitelist order; the quoted bare major for a major that is not listed
ExpectedQuoted(majors) ==
    IF majors = <<>> THEN <<>>
    ELSE LET m == Head(majors)
         IN (IF Whitelisted(m)
             THEN [k \in 1..Len(JAILBREAKABLE[m]) |-> QuotedQuery(JAILBREAKABLE[m][k])]
             ELSE <<QuotedQuery(IntToStr(m))>>)
            \o ExpectedQuoted(Tail(majors))

\* one unquoted query per requested major
ExpectedUnquoted(majors) ==
    [k \in 1..Len(majors) |-> UnquotedQuery(IntToStr(majors[k]))]

\* the version a query names: "iOS <v>"
VersionNamed(q) ==
    LET rest == SubSeq(q, Len(<<"i", "P", "h", "o", "n", "e", " ">>) + 1, Len(q))
    IN Replace(rest, <<"\"">>, <<>>)

\* C17: for every requested major of the whitelist generate_version_queries
\* emits, in whitelist order, one quoted query per whitelisted version and
\* one unquoted query for the bare major, and every version these queries
\* name is jailbreakable; for a major that is not whitelisted it emits the
\* quoted and the unquoted bare-major query; [16, 17] gives 22 queries.
C17_QueriesFollowWhitelist ==
    call.fn = "generate_version_queries" =>
        /\ SelectQueries(call.ret, TRUE) = ExpectedQuoted(major_versions)
        /\ SelectQueries(call.ret, FALSE) = ExpectedUnquoted(major_versions)
        /\ \A k \in DOMAIN call.ret :
              StrToInt(MajorOf(VersionNamed(call.ret[k]))) \in DOMAIN JAILBREAKABLE
              => is_jailbreakable_version(VersionNamed(call.ret[k]))
        /\ (\A k \in DOMAIN major_versions : ~Whitelisted(major_versions[k]))
              => \A k \in DOMAIN major_versions :
                    /\ call.ret[2 * k - 1] = QuotedQuery(IntToStr(major_versions[k]))
                    /\ call.ret[2 * k] = UnquotedQuery(IntToStr(major_versions[k]))
        /\ major_versions = <<16, 17>> => Len(call.ret) = 22

\* the queries for [16, 17] were generated
C17_Witness ==
    /\ call.fn = "generate_version_queries"
    /\ major_versions = <<16, 17>>
    /\ Len(call.ret) = 22

----------------------------------------------------------------------------
(* What search_ebay remembers and what it returns.                          *)

\* the identifier search_ebay reads off a listing (line 281)
ListingId(listing) == Get(listing, "item_id", <<>>)

ListedIds == { ListingId(listings[k]) : k \in DOMAIN listings }

\* no identifier is listed twice, and the identifiers remembered are those
\* listed
SeenIdsAreListedOnce ==
    /\ \A i, j \in DOMAIN listings :
          ListingId(listings[i]) = ListingId(listings[j]) => i = j
    /\ seen_ids = ListedIds

\* the step looked at one item and did not accept it
ItemRejected ==
    /\ Len(log') = Len(log) + 1
    /\ ~log'[Len(log')].accepted

\* C18: in search_ebay no two listings of the returned list have the same
\* item_id, an identifier is in seen_ids iff a listing with it is in the
\* list, and an item that is not accepted leaves seen_ids and the list as
\* they were.
C18_SeenIdsMatchListings ==
    /\ [](source = "ebay" => SeenIdsAreListedOnce)
    /\ [][(source = "ebay" /\ ItemRejected) => UNCHANGED <<seen_ids, listings>>]_vars

\* search_ebay accepted an item, dropped a later one with the same
\* identifier and rejected a third one
C18_Witness ==
    /\ source = "ebay"
    /\ Len(listings) = 1
    /\ \E i, j, k \in DOMAIN log :
          /\ i < j
          /\ log[i].accepted
          /\ log[j].id = log[i].id
          /\ ~log[j].classified
          /\ log[k].classified
          /\ ~log[k].accepted

====
